---- MODULE Spec2Model ----
(***************************************************************************)
(* Model of mega_scraper.py: the MegaScraper object (frontier, discovered  *)
(* images, downloader) driven by repeated scrape() and download() calls.   *)
(*                                                                         *)
(* Python strings are modelled as sequences of one-character strings, so   *)
(* that startswith, endswith, concatenation, urlparse().netloc, split and  *)
(* str()/zfill() are computed as the code computes them.  Regexes are      *)
(* restricted to literal patterns: re.search is a substring search.        *)
(***************************************************************************)
EXTENDS Integers, Sequences, FiniteSets, Bags, TLC

(***************************************************************************)
(* Bounds of the model.                                                    *)
(***************************************************************************)
\* largest max_pages argument passed to scrape()
MaxPagesArg == 2
\* largest how_many argument passed to download()
MaxHowMany == 2
\* total number of fetch/decode failures injected in one behaviour
MaxFailures == 1

(***************************************************************************)
(* String helpers (Python str methods).                                    *)
(***************************************************************************)
Min(a, b) == IF a <= b THEN a ELSE b

\* s.startswith(p)
StartsWith(s, p) == Len(p) <= Len(s) /\ SubSeq(s, 1, Len(p)) = p

\* s.endswith(p)
EndsWith(s, p) == Len(p) <= Len(s) /\ SubSeq(s, Len(s) - Len(p) + 1, Len(s)) = p

\* re.search(pattern, s) for a literal pattern: a match anywhere in s
Search(pattern, s) ==
    \E i \in 1..(Len(s) + 1) :
        /\ i + Len(pattern) - 1 <= Len(s)
        /\ SubSeq(s, i, i + Len(pattern) - 1) = pattern

\* index of the first character of s, at or after position from, that is in
\* the set chars; Len(s) + 1 when there is none
FindFirst(s, chars, from) ==
    LET hits == {i \in from..Len(s) : s[i] \in chars}
    IN  IF hits = {} THEN Len(s) + 1
        ELSE CHOOSE i \in hits : \A j \in hits : i <= j

\* index of the last character of s equal to c; 0 when there is none
FindLast(s, c) ==
    LET hits == {i \in 1..Len(s) : s[i] = c}
    IN  IF hits = {} THEN 0
        ELSE CHOOSE i \in hits : \A j \in hits : j <= i

\* s.split('/')[-1]
LastSegment(s) == SubSeq(s, FindLast(s, "/") + 1, Len(s))

Letters == {"a", "b", "c", "s", "t"}

\* urllib.parse.urlparse(url): the scheme is the text before the first ':'
\* when that text is a non-empty run of scheme characters
SchemeEnd(url) ==
    LET i == FindFirst(url, {":"}, 1)
    IN  IF i <= Len(url) /\ i > 1 /\ \A j \in 1..(i - 1) : url[j] \in Letters
        THEN i ELSE 0

UrlScheme(url) == SubSeq(url, 1, SchemeEnd(url) - 1)

\* urllib.parse.urlparse(url).netloc: after the scheme, when the rest starts
\* with '//', the text up to the next '/', '?' or '#'
UrlNetloc(url) ==
    LET rest == SubSeq(url, SchemeEnd(url) + 1, Len(url))
    IN  IF StartsWith(rest, <<"/", "/">>)
        THEN SubSeq(rest, 3, FindFirst(rest, {"/", "?", "#"}, 3) - 1)
        ELSE <<>>

\* str(n) for n >= 0
Digit(d) == CASE d = 0 -> "0" [] d = 1 -> "1" [] d = 2 -> "2" [] d = 3 -> "3"
              [] d = 4 -> "4" [] d = 5 -> "5" [] d = 6 -> "6" [] d = 7 -> "7"
              [] d = 8 -> "8" [] d = 9 -> "9"

RECURSIVE Str(_)
Str(n) == IF n < 10 THEN <<Digit(n)>> ELSE Str(n \div 10) \o <<Digit(n % 10)>>

\* s.zfill(width)
RECURSIVE Zfill(_, _)
Zfill(s, width) == IF Len(s) >= width THEN s ELSE Zfill(<<"0">> \o s, width)

\* os.path.join(a, b)
PathJoin(a, b) ==
    IF StartsWith(b, <<"/">>) THEN b
    ELSE IF a = <<>> \/ EndsWith(a, <<"/">>) THEN a \o b
    ELSE a \o <<"/">> \o b

(***************************************************************************)
(* The environment: the web site(s) being crawled.  A page is what         *)
(* BeautifulSoup exposes of it: the href values of its <a> elements and    *)
(* the src values of its <img> elements.                                   *)
(***************************************************************************)
OriginA == <<"s", ":", "/", "/", "a">>
Slash == <<"/">>
HrefP == <<"/", "p">>
HrefQ == <<"/", "q">>
\* same host as the seed, other scheme
UrlOtherScheme == <<"t", ":", "/", "/", "a", "/", "r">>
\* other host
UrlForeign == <<"s", ":", "/", "/", "b", "/", "x">>
Src1 == <<"/", "1", ".", "p", "n", "g">>
Src2 == <<"/", "2", ".", "p", "n", "g">>
Src4 == <<"/", "4", ".", "p", "n", "g">>
SrcGif == <<"/", "g", ".", "g", "i", "f">>
\* absolute image source on a third host
Src3 == <<"s", ":", "/", "/", "c", "/", "3", ".", "p", "n", "g">>

EmptyPage == [hrefs |-> {}, imgs |-> {}]

\* the seed links to /p and to a foreign site; /p links to itself, to /q and
\* to the same host under another scheme; /q links back to the seed
WebMain ==
    [seed  |-> OriginA \o Slash,
     pages |-> (OriginA \o Slash :> [hrefs |-> {HrefP, UrlForeign, <<>>},
                                      imgs  |-> {Src1}])
            @@ (OriginA \o HrefP :> [hrefs |-> {HrefP, HrefQ, UrlOtherScheme},
                                      imgs  |-> {Src1, Src2, SrcGif, <<>>}])
            @@ (OriginA \o HrefQ :> [hrefs |-> {Slash},
                                      imgs  |-> {Src3}])
            @@ (UrlOtherScheme   :> [hrefs |-> {},
                                      imgs  |-> {Src4}])
            @@ (UrlForeign       :> [hrefs |-> {HrefP},
                                      imgs  |-> {Src2}]),
     dims  |-> (OriginA \o Src1 :> [width |-> 3, height |-> 3])
            @@ (OriginA \o Src2 :> [width |-> 1, height |-> 3])
            @@ (Src3            :> [width |-> 3, height |-> 1])
            @@ (OriginA \o Src4 :> [width |-> 2, height |-> 2])
            @@ (OriginA \o SrcGif :> [width |-> 3, height |-> 3])]

\* a site without self-links: the seed links to /p and /q, which link to
\* each other
WebPlain ==
    [seed  |-> OriginA \o Slash,
     pages |-> (OriginA \o Slash :> [hrefs |-> {HrefP, HrefQ},
                                      imgs  |-> {}])
            @@ (OriginA \o HrefP :> [hrefs |-> {OriginA \o HrefQ},
                                      imgs  |-> {Src1, Src2}])
            @@ (OriginA \o HrefQ :> [hrefs |-> {HrefP},
                                      imgs  |-> {Src2, Src4, SrcGif}]),
     dims  |-> (OriginA \o Src1 :> [width |-> 2, height |-> 2])
            @@ (OriginA \o Src2 :> [width |-> 3, height |-> 3])
            @@ (OriginA \o Src4 :> [width |-> 1, height |-> 1])
            @@ (OriginA \o SrcGif :> [width |-> 3, height |-> 3])]

Webs == {WebMain, WebPlain}

\* requests.get(url).content parsed by BeautifulSoup: an unknown URL gives a
\* page without links or images
Soup(w, url) == IF url \in DOMAIN w.pages THEN w.pages[url] ELSE EmptyPage

(***************************************************************************)
(* Constructor arguments other than the seed.                              *)
(***************************************************************************)
OutputFolderpath == <<"o">>

\* _DEFAULT_IMAGES_PER_FOLDER is 100; the model groups by 1 or 2 so that
\* folder boundaries are crossed
Layouts ==
    {[output_structure |-> "flat", images_per_folder |-> 2,
      folder_initial_num |-> 1]}
    \cup {[output_structure |-> "grouped", images_per_folder |-> ipf,
           folder_initial_num |-> 3 - ipf] : ipf \in {1, 2}}

\* the regexes and the minimum size: no filtering at all; a size filter with
\* an image regex; a page regex with a size filter
FilterNone ==
    [regex_pages |-> <<>>, regex_images |-> <<>>,
     min_width |-> 0, min_height |-> 0]
FilterSize ==
    [regex_pages |-> <<>>, regex_images |-> <<"/", "a", "/">>,
     min_width |-> 2, min_height |-> 2]
FilterPage ==
    [regex_pages |-> <<"p">>, regex_images |-> <<>>,
     min_width |-> 2, min_height |-> 3]

Filters == {FilterNone, FilterSize, FilterPage}

\* the arguments of one MegaScraper
Policy(f, l, nm) ==
    [regex_pages |-> f.regex_pages, regex_images |-> f.regex_images,
     min_width |-> f.min_width, min_height |-> f.min_height,
     output_folderpath |-> OutputFolderpath,
     output_structure |-> l.output_structure, output_naming |-> nm,
     images_per_folder |-> l.images_per_folder,
     folder_initial_num |-> l.folder_initial_num]

\* numerical naming with every filter and layout; the original names with
\* one layout for each filter
Policies ==
    {Policy(f, l, "numerical") : f \in Filters, l \in Layouts}
    \cup {Policy(FilterNone, l, "keep") :
            l \in {x \in Layouts : x.output_structure = "flat"}}
    \cup {Policy(FilterSize, l, "keep") :
            l \in {x \in Layouts : x.images_per_folder = 2
                                   /\ x.output_structure = "grouped"}}
    \cup {Policy(FilterPage, l, "keep") :
            l \in {x \in Layouts : x.images_per_folder = 1}}

\* _DEFAULT_MAX_PAGES
DefaultMaxPages == 99999
\* _DEFAULT_HOW_MANY
DefaultHowMany == 99999

(***************************************************************************)
(* State of one MegaScraper object, of the call in progress, and history.  *)
(***************************************************************************)
VARIABLES
    web,              \* the site (environment, fixed)
    cfg,              \* constructor arguments (self._seed, self._regex_pages, ...)
    explored,         \* self._explored
    unexplored,       \* self._unexplored
    images_urls,      \* self._images_urls
    downloaded,       \* self._downloaded
    downloaded_idx,   \* self._downloaded_idx
    pc,               \* "idle", or the method being executed
    max_pages,        \* scrape(): argument
    num_pages,        \* scrape(): local num_pages
    call_images,      \* scrape(): local images_urls
    how_many,         \* download(): argument
    iter,             \* download(): number of range() values consumed
    result,           \* outcome of the last call: returned value or exception
    files,            \* the files written by image.save, in order
    fetched,          \* history: bag of page URLs fetched successfully
    tried,            \* history: bag of image URLs whose fetch was begun
    decoded,          \* history: bag of image URLs fetched and decoded
    failures,         \* history: number of failed fetches
    returned,         \* history: union of the sets returned by scrape()
    extracted,        \* history: image URLs extracted from processed pages
    queued,           \* history: URLs ever placed in unexplored
    pre               \* history: snapshot taken when the current call began

vars == <<web, cfg, explored, unexplored, images_urls, downloaded,
          downloaded_idx, pc, max_pages, num_pages, call_images, how_many,
          iter, result, files, fetched, tried, decoded, failures,
          returned, extracted, queued, pre>>

objVars == <<explored, unexplored, images_urls, downloaded, downloaded_idx>>
scrapeLocals == <<max_pages, num_pages, call_images>>
downloadLocals == <<how_many, iter>>
envVars == <<web, cfg>>
scrapeHist == <<fetched, returned, extracted, queued>>
downloadHist == <<tried, decoded>>

NoPre == [images_urls |-> {}, downloaded |-> {}, nfiles |-> 0, ntried |-> 0]

\* the state a call starts from
Snapshot == [images_urls |-> images_urls, downloaded |-> downloaded,
             nfiles |-> Len(files), ntried |-> BagCardinality(tried)]
NoResult == [op |-> "none", kind |-> "none", value |-> {}]

\* self._parsed_seed.netloc
SeedNetloc == UrlNetloc(cfg.seed)

\* self._root
Root == UrlScheme(cfg.seed) \o <<":", "/", "/">> \o SeedNetloc

\* MegaScraper.__init__
Init ==
    /\ web \in Webs
    /\ \E p \in Policies :
         cfg = [seed |-> web.seed,
                regex_pages |-> p.regex_pages,
                regex_images |-> p.regex_images,
                min_width |-> p.min_width,
                min_height |-> p.min_height,
                output_folderpath |-> p.output_folderpath,
                output_structure |-> p.output_structure,
                output_naming |-> p.output_naming,
                images_per_folder |-> p.images_per_folder,
                folder_initial_num |-> p.folder_initial_num]
    /\ explored = {}
    /\ unexplored = {web.seed}
    /\ images_urls = {}
    /\ downloaded = {}
    /\ downloaded_idx = 1
    /\ pc = "idle"
    /\ max_pages = 0
    /\ num_pages = 0
    /\ call_images = {}
    /\ how_many = 0
    /\ iter = 0
    /\ result = NoResult
    /\ files = <<>>
    /\ fetched = EmptyBag
    /\ tried = EmptyBag
    /\ decoded = EmptyBag
    /\ failures = 0
    /\ returned = {}
    /\ extracted = {}
    /\ queued = {web.seed}
    /\ pre = NoPre

(***************************************************************************)
(* Extraction.                                                             *)
(***************************************************************************)
\* href / src made absolute: "if href.startswith('/'): href = self._root + href"
Absolute(ref) == IF StartsWith(ref, Slash) THEN Root \o ref ELSE ref

\* MegaScraper._extract_unexplored_pages, self._explored being expl
UnexploredPagesOf(soup, expl) ==
    {href \in {Absolute(h) : h \in {x \in soup.hrefs : x # <<>>}} :
        /\ href \notin expl
        /\ UrlNetloc(href) = SeedNetloc}

\* a version without the test of the netloc
ExtractUnexploredPagesAnyHost(soup) ==
    {Absolute(href) : href \in
        {h \in soup.hrefs : h # <<>> /\ Absolute(h) \notin explored}}

\* a version without the test of self._explored
ExtractUnexploredPagesAll(soup) == UnexploredPagesOf(soup, {})

\* MegaScraper._extract_unexplored_pages(soup)
ExtractUnexploredPages(soup) == UnexploredPagesOf(soup, explored)

\* a version without the test of the '.gif' suffix
ExtractImagesUrlsWithGif(soup) ==
    {Absolute(src) : src \in
        {s \in soup.imgs :
            s # <<>> /\ Search(cfg.regex_images, Absolute(s))}}

\* MegaScraper._extract_images_urls
ExtractImagesUrls(soup) ==
    {Absolute(src) : src \in
        {s \in soup.imgs :
            /\ s # <<>>
            /\ ~EndsWith(s, <<".", "g", "i", "f">>)
            /\ Search(cfg.regex_images, Absolute(s))}}

(***************************************************************************)
(* scrape()                                                                *)
(***************************************************************************)
\* scrape(max_pages): the assertions and the initialisation of the locals
ScrapeCall(n) ==
    /\ pc = "idle"
    /\ n >= 1
    /\ pc' = "scrape"
    /\ max_pages' = n
    /\ num_pages' = 0
    /\ call_images' = {}
    /\ result' = NoResult
    /\ pre' = Snapshot
    /\ UNCHANGED <<envVars, objVars, downloadLocals, files, scrapeHist,
                   downloadHist, failures>>

\* a version without the break
ScrapeLoopRunsNoBreak == unexplored # {}

\* the while loop is entered again: unexplored is not empty and the last
\* iteration did not break
ScrapeLoopRuns == unexplored # {} /\ num_pages # max_pages

\* a version that takes the images of every page, matching or not
ScrapeIterAllPages(url) ==
    /\ pc = "scrape"
    /\ ScrapeLoopRuns
    /\ url \in unexplored
    /\ LET soup == Soup(web, url)
           imgs == ExtractImagesUrls(soup)
       IN  /\ unexplored' = (unexplored \ {url}) \cup ExtractUnexploredPages(soup)
           /\ call_images' = call_images \cup imgs
           /\ extracted' = extracted \cup imgs
           /\ queued' = queued \cup ExtractUnexploredPages(soup)
    /\ explored' = explored \cup {url}
    /\ num_pages' = num_pages + 1
    /\ fetched' = fetched (+) SetToBag({url})
    /\ UNCHANGED <<envVars, images_urls, downloaded, downloaded_idx, pc,
                   max_pages, downloadLocals, result, files, downloadHist,
                   failures, returned, pre>>

\* one iteration of the while loop in which requests.get succeeds
ScrapeIter(url) ==
    /\ pc = "scrape"
    /\ ScrapeLoopRuns
    /\ url \in unexplored
    /\ LET soup == Soup(web, url)
           imgs == IF Search(cfg.regex_pages, url)
                   THEN ExtractImagesUrls(soup) ELSE {}
       IN  /\ unexplored' = (unexplored \ {url}) \cup ExtractUnexploredPages(soup)
           /\ call_images' = call_images \cup imgs
           /\ extracted' = extracted \cup imgs
           /\ queued' = queued \cup ExtractUnexploredPages(soup)
    /\ explored' = explored \cup {url}
    /\ num_pages' = num_pages + 1
    /\ fetched' = fetched (+) SetToBag({url})
    /\ UNCHANGED <<envVars, images_urls, downloaded, downloaded_idx, pc,
                   max_pages, downloadLocals, result, files, downloadHist,
                   failures, returned, pre>>

\* one iteration of the while loop in which requests.get raises: the URL
\* has been popped, the exception leaves scrape()
ScrapeFail(url) ==
    /\ pc = "scrape"
    /\ ScrapeLoopRuns
    /\ url \in unexplored
    /\ failures < MaxFailures
    /\ unexplored' = unexplored \ {url}
    /\ failures' = failures + 1
    /\ pc' = "idle"
    /\ result' = [op |-> "scrape", kind |-> "raise", value |-> {url}]
    /\ max_pages' = 0
    /\ num_pages' = 0
    /\ call_images' = {}
    /\ pre' = NoPre
    /\ UNCHANGED <<envVars, explored, images_urls, downloaded, downloaded_idx,
                   downloadLocals, files, scrapeHist, downloadHist>>

\* a version that returns everything found in the call
NewImagesUrlsAll == call_images

\* new_images_urls = images_urls.difference(self._images_urls)
NewImagesUrls == call_images \ images_urls

\* a version that forgets what earlier calls found
UpdatedImagesUrlsReplace == call_images

\* self._images_urls.update(images_urls)
UpdatedImagesUrls == images_urls \cup call_images

\* the code after the loop: the new images are returned and remembered
ScrapeReturn ==
    /\ pc = "scrape"
    /\ ~ScrapeLoopRuns
    /\ result' = [op |-> "scrape", kind |-> "return", value |-> NewImagesUrls]
    /\ returned' = returned \cup NewImagesUrls
    /\ images_urls' = UpdatedImagesUrls
    /\ pc' = "idle"
    /\ max_pages' = 0
    /\ num_pages' = 0
    /\ call_images' = {}
    /\ pre' = NoPre
    /\ UNCHANGED <<envVars, explored, unexplored, downloaded, downloaded_idx,
                   downloadLocals, files, fetched, extracted, queued,
                   downloadHist, failures>>

(***************************************************************************)
(* download()                                                              *)
(***************************************************************************)
\* download(how_many): the assertion and the creation of the output folder
DownloadCall(n) ==
    /\ pc = "idle"
    /\ pc' = "download"
    /\ how_many' = n
    /\ iter' = 0
    /\ result' = NoResult
    /\ pre' = Snapshot
    /\ UNCHANGED <<envVars, objVars, scrapeLocals, files, scrapeHist,
                   downloadHist, failures>>

\* images_to_download
ImagesToDownload == images_urls \ downloaded

\* a version whose budget counts the images saved
DownloadLoopRunsCountingSaves ==
    Len(files) - pre.nfiles < how_many /\ ImagesToDownload # {}

\* the for loop runs another iteration that does not break
DownloadLoopRuns == iter < how_many /\ ImagesToDownload # {}

\* a version with "or" for "and"
AcceptedEither(image) ==
    image.width >= cfg.min_width \/ image.height >= cfg.min_height

\* "if image.width >= self._min_width and image.height >= self._min_height"
Accepted(image) ==
    image.width >= cfg.min_width /\ image.height >= cfg.min_height

\* the name of the downloaded image
ImageFilename(image_url) ==
    IF cfg.output_naming = "keep"
    THEN LastSegment(image_url)
    ELSE Str(downloaded_idx) \o <<".", "j", "p", "g">>

\* a version that divides the index itself
ImageFoldernameOffByOne ==
    Zfill(Str((downloaded_idx \div cfg.images_per_folder)
              + cfg.folder_initial_num), 4)

\* a version whose folders take one image more
ImageFoldernameWideGroups ==
    Zfill(Str(((downloaded_idx - 1) \div (cfg.images_per_folder + 1))
              + cfg.folder_initial_num), 4)

\* the name of the sub-folder in the 'grouped' structure
ImageFoldername ==
    Zfill(Str(((downloaded_idx - 1) \div cfg.images_per_folder)
              + cfg.folder_initial_num), 4)

\* the path the image is saved to
ImageFilepath(image_url) ==
    IF cfg.output_structure = "flat"
    THEN PathJoin(cfg.output_folderpath, ImageFilename(image_url))
    ELSE PathJoin(PathJoin(cfg.output_folderpath, ImageFoldername),
                  ImageFilename(image_url))

\* a version that remembers only the images it saved
MarkedDownloadedIfSaved(image_url) ==
    IF Accepted(web.dims[image_url]) THEN downloaded \cup {image_url}
    ELSE downloaded

\* a version that forgets the images downloaded before
MarkedDownloadedOnly(image_url) == {image_url}

\* self._downloaded.add(image_url)
MarkedDownloaded(image_url) == downloaded \cup {image_url}

\* a version that counts every decoded image, saved or not
DownloadIterCountsAttempts(image_url) ==
    /\ pc = "download"
    /\ DownloadLoopRuns
    /\ image_url \in ImagesToDownload
    /\ image_url \in DOMAIN web.dims
    /\ LET image == web.dims[image_url]
       IN  IF Accepted(image)
           THEN files' = Append(files, [path |-> ImageFilepath(image_url),
                                        url |-> image_url,
                                        nth |-> Cardinality(downloaded) + 1])
           ELSE UNCHANGED files
    /\ downloaded_idx' = downloaded_idx + 1
    /\ downloaded' = MarkedDownloaded(image_url)
    /\ tried' = tried (+) SetToBag({image_url})
    /\ decoded' = decoded (+) SetToBag({image_url})
    /\ iter' = iter + 1
    /\ UNCHANGED <<envVars, explored, unexplored, images_urls, pc,
                   scrapeLocals, how_many, result, scrapeHist, failures,
                   pre>>

\* one iteration of the for loop in which the image is fetched and decoded
DownloadIter(image_url) ==
    /\ pc = "download"
    /\ DownloadLoopRuns
    /\ image_url \in ImagesToDownload
    /\ image_url \in DOMAIN web.dims
    /\ LET image == web.dims[image_url]
       IN  IF Accepted(image)
           THEN /\ files' = Append(files, [path |-> ImageFilepath(image_url),
                                           url |-> image_url,
                                           nth |-> Cardinality(downloaded) + 1])
                /\ downloaded_idx' = downloaded_idx + 1
           ELSE UNCHANGED <<files, downloaded_idx>>
    /\ downloaded' = MarkedDownloaded(image_url)
    /\ tried' = tried (+) SetToBag({image_url})
    /\ decoded' = decoded (+) SetToBag({image_url})
    /\ iter' = iter + 1
    /\ UNCHANGED <<envVars, explored, unexplored, images_urls, pc,
                   scrapeLocals, how_many, result, scrapeHist, failures,
                   pre>>

\* a version that marks the image as downloaded before fetching it
DownloadFailMarks(image_url) ==
    /\ pc = "download"
    /\ DownloadLoopRuns
    /\ image_url \in ImagesToDownload
    /\ failures < MaxFailures
    /\ failures' = failures + 1
    /\ pc' = "idle"
    /\ result' = [op |-> "download", kind |-> "raise", value |-> {image_url}]
    /\ how_many' = 0
    /\ iter' = 0
    /\ pre' = NoPre
    /\ tried' = tried (+) SetToBag({image_url})
    /\ downloaded' = downloaded \cup {image_url}
    /\ UNCHANGED <<envVars, explored, unexplored, images_urls, downloaded_idx,
                   scrapeLocals, files, scrapeHist, decoded>>

\* one iteration of the for loop in which requests.get or PIL.Image.open
\* raises: the exception leaves download()
DownloadFail(image_url) ==
    /\ pc = "download"
    /\ DownloadLoopRuns
    /\ image_url \in ImagesToDownload
    /\ failures < MaxFailures
    /\ failures' = failures + 1
    /\ pc' = "idle"
    /\ result' = [op |-> "download", kind |-> "raise", value |-> {image_url}]
    /\ how_many' = 0
    /\ iter' = 0
    /\ pre' = NoPre
    /\ tried' = tried (+) SetToBag({image_url})
    /\ UNCHANGED <<envVars, objVars, scrapeLocals, files, scrapeHist,
                   decoded>>

\* the for loop is over: download() returns None
DownloadReturn ==
    /\ pc = "download"
    /\ ~DownloadLoopRuns
    /\ pc' = "idle"
    /\ result' = [op |-> "download", kind |-> "return", value |-> {}]
    /\ how_many' = 0
    /\ iter' = 0
    /\ pre' = NoPre
    /\ UNCHANGED <<envVars, objVars, scrapeLocals, files, scrapeHist,
                   downloadHist, failures>>

Next ==
    \/ \E n \in (1..MaxPagesArg) \cup {DefaultMaxPages} : ScrapeCall(n)
    \/ \E url \in unexplored : ScrapeIter(url)
    \/ \E url \in unexplored : ScrapeFail(url)
    \/ ScrapeReturn
    \/ \E n \in (0..MaxHowMany) \cup {DefaultHowMany} : DownloadCall(n)
    \/ \E image_url \in images_urls : DownloadIter(image_url)
    \/ \E image_url \in images_urls : DownloadFail(image_url)
    \/ DownloadReturn

Spec == Init /\ [][Next]_vars

\* a caller that only scrapes, on a site whose fetches all succeed
NextScrape ==
    \/ \E n \in (1..MaxPagesArg) \cup {DefaultMaxPages} : ScrapeCall(n)
    \/ \E url \in unexplored : ScrapeIter(url)
    \/ ScrapeReturn

\* the code is sequential and every statement completes, and the caller
\* calls scrape() again and again: some step of NextScrape is always taken
SpecScrape == Init /\ [][NextScrape]_vars /\ WF_vars(NextScrape)

(***************************************************************************)
(* Properties.                                                             *)
(***************************************************************************)
\* the file written for image_url, if any
Saved(image_url) == \E k \in 1..Len(files) : files[k].url = image_url

\* a step in which the call in progress returns normally
Returns(op) == pc = op /\ pc' = "idle" /\ result'.kind = "return"

\* C1: no re-visitation: every page URL is fetched at most once over all the
\* scrape calls on the object, also on sites where a page links to itself.
NoRevisitation ==
    \A url \in BagToSet(fetched) : CopiesIn(url, fetched) <= 1

\* C2: explored and unexplored are disjoint after construction and after every
\* loop iteration of scrape, and a URL leaves unexplored exactly in the step
\* that adds it to explored.  (Stated of the steps in which no fetch fails.)
FrontierMove ==
    [][failures' = failures =>
       /\ explored' \cap unexplored' = {}
       /\ \A url \in unexplored \cup unexplored' \cup explored' :
            (url \in unexplored /\ url \notin unexplored')
                <=> (url \notin explored /\ url \in explored')]_vars

\* scrape() with an unbounded page budget, run from the given state with a
\* fixed choice of the URL popped: the images of the call
RECURSIVE ScrapeUnbounded(_, _, _)
ScrapeUnbounded(expl, unexpl, imgs) ==
    IF unexpl = {} THEN imgs
    ELSE LET url == CHOOSE u \in unexpl : TRUE
             soup == Soup(web, url)
         IN  ScrapeUnbounded(
                 expl \cup {url},
                 (unexpl \ {url}) \cup UnexploredPagesOf(soup, expl),
                 imgs \cup (IF Search(cfg.regex_pages, url)
                            THEN ExtractImagesUrls(soup) ELSE {}))

\* C3: idempotence of discovery: without fetch failures, once repeated scrape
\* calls (any budgets, any pop order) have emptied unexplored, the discovered
\* images are those of one unbounded scrape call from the initial state, and
\* the union of the returned sets is that same set.
IdempotentDiscovery ==
    (pc = "idle" /\ unexplored = {} /\ failures = 0)
        => /\ images_urls = ScrapeUnbounded({}, {cfg.seed}, {})
           /\ returned = images_urls

\* the frontier was emptied without failures and the last scrape call
\* returned some, but not all, of the discovered images
IdempotentDiscoveryWitness ==
    /\ pc = "idle" /\ unexplored = {} /\ failures = 0
    /\ result.op = "scrape" /\ result.kind = "return"
    /\ result.value # {}
    /\ result.value # images_urls

\* C4: a scrape call returns the images extracted during the call minus the
\* images discovered before the call, and leaves discoveredImages as the
\* pre-call value united with the images extracted; the returned set is
\* disjoint from the pre-call value and from every set returned before.
ScrapeReturnsDelta ==
    [][Returns("scrape") =>
          /\ result'.value = call_images \ pre.images_urls
          /\ images_urls' = pre.images_urls \cup call_images
          /\ result'.value \cap pre.images_urls = {}
          /\ result'.value \cap returned = {}]_vars

\* a scrape call has returned new images while others were known before it
ScrapeReturnsDeltaWitness ==
    /\ result.op = "scrape" /\ result.kind = "return"
    /\ result.value # {}
    /\ images_urls \ result.value # {}
    /\ returned = images_urls

\* C5: the fetch/decode step of download runs at most once per image URL,
\* whether the image was saved, rejected for its size, or the step failed.
AtMostOneAttempt ==
    \A image_url \in BagToSet(tried) : CopiesIn(image_url, tried) <= 1

\* C5, amended: the fetch/decode step completes at most once per image URL,
\* whether the image was then saved or rejected for its size: a URL is in
\* downloaded exactly when it was decoded, once.
AtMostOneDecode ==
    \A image_url \in images_urls \cup BagToSet(tried) \cup downloaded :
        CopiesIn(image_url, decoded) = IF image_url \in downloaded THEN 1 ELSE 0

\* a later download call is making attempts while an image rejected for its
\* size in an earlier call is still among the discovered images
AtMostOneDecodeWitness ==
    /\ pc = "download" /\ iter >= 1
    /\ \E image_url \in pre.downloaded :
         ~Saved(image_url) /\ image_url \in images_urls

\* the scheme and the netloc of a URL
Origin(url) == <<UrlScheme(url), UrlNetloc(url)>>

\* the pages scrape has put in the frontier or fetched
Frontier == unexplored \cup explored

Decodes(image_url) == CopiesIn(image_url, decoded') > CopiesIn(image_url, decoded)

\* a step in which image_url is written as a new file
Saves(image_url) ==
    /\ Len(files') = Len(files) + 1
    /\ files'[Len(files')].url = image_url
    /\ SubSeq(files', 1, Len(files)) = files

\* C7: size filter: an image that download decodes is saved if and only if
\* its width is at least min_width and its height at least min_height; in
\* both cases its URL is in downloaded afterwards, and on rejection no file is
\* written and downloaded_idx is unchanged.
SizeFilter ==
    [][\A image_url \in DOMAIN web.dims :
          Decodes(image_url) =>
              /\ Saves(image_url)
                    <=> (/\ web.dims[image_url].width >= cfg.min_width
                         /\ web.dims[image_url].height >= cfg.min_height)
              /\ image_url \in downloaded'
              /\ Saves(image_url) \/ (files' = files
                                      /\ downloaded_idx' = downloaded_idx)]_vars

\* some image was saved and another, too small in one dimension only, was not
SizeFilterWitness ==
    /\ files # <<>>
    /\ \E image_url \in downloaded :
         /\ ~Saved(image_url)
         /\ \/ web.dims[image_url].width >= cfg.min_width
            \/ web.dims[image_url].height >= cfg.min_height

\* int(s) for a string of digits
DigitValue(c) == CHOOSE d \in 0..9 : Digit(d) = c

RECURSIVE ParseInt(_)
ParseInt(s) ==
    IF s = <<>> THEN 0
    ELSE ParseInt(SubSeq(s, 1, Len(s) - 1)) * 10 + DigitValue(s[Len(s)])

Digits == {Digit(d) : d \in 0..9}
IsNumeral(s) == s # <<>> /\ \A i \in 1..Len(s) : s[i] \in Digits

\* os.path.dirname(path)
Dirname(path) == SubSeq(path, 1, FindLast(path, "/") - 1)

DotJpg == <<".", "j", "p", "g">>

\* C8: naming/layout determinism: with numerical naming and the grouped
\* structure, the k-th image saved by the object is written as "k.jpg" in the
\* folder numbered floor((k - 1) / images_per_folder) + folder_initial_num
\* (padded to four digits), whatever was rejected before it and however the
\* downloads were split over calls.
NamingDeterminism ==
    (cfg.output_naming = "numerical" /\ cfg.output_structure = "grouped")
        => \A k \in 1..Len(files) :
             LET name == LastSegment(files[k].path)
                 stem == SubSeq(name, 1, Len(name) - Len(DotJpg))
                 folder == LastSegment(Dirname(files[k].path))
             IN  /\ EndsWith(name, DotJpg)
                 /\ IsNumeral(stem) /\ stem[1] # "0" /\ ParseInt(stem) = k
                 /\ IsNumeral(folder) /\ Len(folder) = 4
                 /\ ParseInt(folder) =
                        ((k - 1) \div cfg.images_per_folder)
                            + cfg.folder_initial_num
                 /\ Dirname(Dirname(files[k].path)) = cfg.output_folderpath

\* numerical naming, grouped structure: two images were saved in different
\* folders, the second after an image that was rejected
NamingDeterminismWitness ==
    /\ cfg.output_naming = "numerical" /\ cfg.output_structure = "grouped"
    /\ \E k \in 2..Len(files) :
         /\ files[k].nth > k
         /\ Dirname(files[k].path) # Dirname(files[1].path)

\* C9: the download budget counts attempts: a download(how_many) call makes
\* at most how_many fetch/decode attempts, and when it returns exactly
\* min(how_many, number of candidates at its start); a rejected image uses
\* one unit, so that download(1) popping an undersized image returns with
\* that URL in downloaded, nothing saved and the other candidates untouched.
DownloadBudget ==
    [][pc = "download" =>
          LET attempts == BagCardinality(tried') - pre.ntried
              candidates == pre.images_urls \ pre.downloaded
          IN  /\ attempts <= how_many
              /\ Returns("download") =>
                    /\ attempts = Min(how_many, Cardinality(candidates))
                    /\ \A image_url \in downloaded \ pre.downloaded :
                          (how_many = 1 /\ ~Accepted(web.dims[image_url])) =>
                              /\ Len(files) = pre.nfiles
                              /\ downloaded = pre.downloaded \cup {image_url}
                              /\ images_urls \ downloaded
                                    = candidates \ {image_url}]_vars

\* a download(1) call has used its budget on a rejected image while another
\* candidate remains
DownloadBudgetWitness ==
    /\ pc = "download" /\ how_many = 1 /\ iter = 1
    /\ Len(files) = pre.nfiles
    /\ downloaded # pre.downloaded
    /\ ImagesToDownload # {}

\* C10: partial progress of an aborted scrape is preserved: every image
\* extracted from a page that was processed (and marked explored) is in
\* discoveredImages after the abort or is added by later scrape calls; so
\* when the frontier is empty between calls, no extracted image is missing.
PartialProgressPreserved ==
    (pc = "idle" /\ unexplored = {}) => extracted \subseteq images_urls

\* C11: crash-and-resume of the frontier: when a page fetch fails inside
\* scrape the failing URL is still in unexplored afterwards, and between
\* calls every URL ever placed in unexplored is in unexplored or in explored.
FrontierResumes ==
    pc = "idle" =>
        /\ queued \subseteq unexplored \cup explored
        /\ (result.op = "scrape" /\ result.kind = "raise")
              => result.value \subseteq unexplored

\* the literal suffix '.gif'
DotGif == <<".", "g", "i", "f">>

\* C12: GIF exclusion: an image source ending in '.gif' is never added to
\* discoveredImages (nor returned) by any scrape call, even when it matches
\* the image regex and is on a page that matches the page filter.
GifExcluded ==
    /\ \A image_url \in images_urls \cup returned \cup result.value :
         ~EndsWith(image_url, DotGif)
    /\ \A url \in explored : \A src \in Soup(web, url).imgs :
         EndsWith(src, DotGif) => Absolute(src) \notin images_urls

\* a scrape call has returned images of a matching page that also shows a
\* '.gif' image matching the image regex
GifExcludedWitness ==
    /\ pc = "idle" /\ result.op = "scrape" /\ result.kind = "return"
    /\ \E url \in explored : \E src \in Soup(web, url).imgs :
         /\ Search(cfg.regex_pages, url)
         /\ EndsWith(src, DotGif)
         /\ Search(cfg.regex_images, Absolute(src))
         /\ \E other \in Soup(web, url).imgs : Absolute(other) \in result.value

\* a step in which the fetch or the decode of image_url raises
FailsOn(image_url) ==
    /\ CopiesIn(image_url, tried') > CopiesIn(image_url, tried)
    /\ ~Decodes(image_url)

\* C13: a failed download attempt leaves the bookkeeping unchanged: the URL
\* is not added to downloaded and downloaded_idx is not incremented, so the
\* URL is still a candidate; a URL is added to downloaded only in a step that
\* decodes it, whether the image is then accepted or not.
FailedAttemptChangesNothing ==
    [][/\ \A image_url \in images_urls :
            FailsOn(image_url) =>
                /\ downloaded' = downloaded
                /\ downloaded_idx' = downloaded_idx
                /\ files' = files
                /\ image_url \in images_urls' \ downloaded'
       /\ \A image_url \in downloaded' \ downloaded : Decodes(image_url)
       /\ \A image_url \in images_urls :
            Decodes(image_url) => image_url \in downloaded']_vars

\* a download call was aborted on an image that is still a candidate, after
\* another image had been downloaded
FailedAttemptChangesNothingWitness ==
    /\ pc = "idle" /\ result.op = "download" /\ result.kind = "raise"
    /\ result.value \subseteq ImagesToDownload
    /\ downloaded # {}

\* C14: monotonic growth: no step of any scrape or download call, aborted or
\* not, removes a URL from explored, discoveredImages or downloaded.
MonotonicGrowth ==
    [][/\ explored \subseteq explored'
       /\ images_urls \subseteq images_urls'
       /\ downloaded \subseteq downloaded']_vars

\* a call was aborted while the three sets were not empty
MonotonicGrowthWitness ==
    /\ pc = "idle" /\ result.kind = "raise"
    /\ explored # {} /\ images_urls # {} /\ Cardinality(downloaded) >= 2

\* C15: downloaded_idx starts at 1 and is incremented by one exactly when an
\* image is saved: it is always 1 plus the number of images saved so far,
\* and downloaded_idx - 1 <= |downloaded|.
IndexCountsSaves ==
    /\ downloaded_idx = 1 + Len(files)
    /\ downloaded_idx - 1 <= Cardinality(downloaded)
    /\ \A k \in 1..Len(files) : files[k].url \in downloaded

\* images were saved and at least one was rejected
IndexCountsSavesWitness ==
    /\ downloaded_idx >= 3
    /\ Cardinality(downloaded) > downloaded_idx - 1

\* page url shows a link that resolves to target
LinksTo(url, target) ==
    \E href \in Soup(web, url).hrefs : href # <<>> /\ Absolute(href) = target

\* page url shows an image source that resolves to image_url
Shows(url, image_url) ==
    \E src \in Soup(web, url).imgs : src # <<>> /\ Absolute(src) = image_url

\* C16: the page filter gates images only: the same-host links of every page
\* fetched were put into the frontier whether or not the page URL matches the
\* page regex, and every image URL in discoveredImages is shown by an explored
\* page whose URL matches the page regex.
PageFilterGatesImagesOnly ==
    /\ \A url \in explored :
         \A target \in {Absolute(h) : h \in Soup(web, url).hrefs \ {<<>>}} :
             UrlNetloc(target) = SeedNetloc => target \in queued
    /\ \A image_url \in images_urls \cup call_images :
         \E url \in explored :
             Search(cfg.regex_pages, url) /\ Shows(url, image_url)

\* a page that does not match the page regex and shows an image was
\* processed, its link was followed and images were discovered there
PageFilterGatesImagesOnlyWitness ==
    /\ images_urls # {}
    /\ \E url \in explored :
         /\ ~Search(cfg.regex_pages, url)
         /\ \E image_url \in DOMAIN web.dims :
              Shows(url, image_url) /\ image_url \notin images_urls
         /\ \E target \in explored : target # url /\ LinksTo(url, target)

\* C17: page budget and termination: a scrape(max_pages) call fetches at
\* most max_pages pages and terminates, stopping early when unexplored is
\* empty; without fetch failures repeated scrape calls reach a state with
\* unexplored empty, and from then on a scrape call fetches nothing and
\* returns the empty set.
PageBudgetAndTermination ==
    /\ [](pc = "scrape" => num_pages <= max_pages)
    /\ [][/\ fetched' # fetched =>
                /\ pc = "scrape"
                /\ num_pages' = num_pages + 1
                /\ BagCardinality(fetched') = BagCardinality(fetched) + 1
          /\ ScrapeCall(max_pages') => num_pages' = 0
          /\ Returns("scrape") =>
                /\ unexplored = {} \/ num_pages = max_pages
                /\ num_pages = 0 => (result'.value = {} /\ unexplored = {})]_vars
    /\ (pc = "scrape") ~> (pc = "idle")
    /\ <>[](unexplored = {})

\* a scrape call was made after the frontier had been emptied
PageBudgetAndTerminationWitness ==
    /\ pc = "scrape" /\ num_pages = 0
    /\ unexplored = {}
    /\ Cardinality(explored) >= 3

\* C18: downloaded is a subset of discoveredImages in every state, under any
\* interleaving of scrape and download calls: download attempts only URLs
\* that a scrape call has committed to discoveredImages.
DownloadedWereDiscovered ==
    /\ downloaded \subseteq images_urls
    /\ BagToSet(tried) \subseteq images_urls
    /\ \A k \in 1..Len(files) : files[k].url \in images_urls

\* a scrape call following a download holds images it has not committed yet
DownloadedWereDiscoveredWitness ==
    /\ pc = "scrape"
    /\ downloaded # {}
    /\ call_images \ images_urls # {}

\* C19: a URL is put into unexplored only while it is not in explored and
\* enters explored at the end of the iteration that processes it; so every
\* page URL is fetched and processed at most twice, and twice only if the
\* page shows a link to its own URL.
FetchedAtMostTwice ==
    \A url \in BagToSet(fetched) \cup unexplored \cup explored :
        /\ CopiesIn(url, fetched) <= 2
        /\ CopiesIn(url, fetched) = 2 => LinksTo(url, url)
        /\ url \in explored <=> CopiesIn(url, fetched) >= 1
        /\ (url \in unexplored /\ url \in explored)
              => (LinksTo(url, url) /\ CopiesIn(url, fetched) = 1)

\* a page was fetched twice
FetchedAtMostTwiceWitness ==
    \E url \in explored : CopiesIn(url, fetched) = 2

\* the files written into the folder of the k-th file
SameFolder(k) ==
    {j \in 1..Len(files) : Dirname(files[j].path) = Dirname(files[k].path)}

\* C20: with numerical naming, flat or grouped, no two saved images are
\* written to the same path; in the grouped structure no folder receives
\* more than images_per_folder saved images.
NoPathCollision ==
    /\ cfg.output_naming = "numerical" =>
          \A j, k \in 1..Len(files) :
              j # k => files[j].path # files[k].path
    /\ cfg.output_structure = "grouped" =>
          \A k \in 1..Len(files) :
              Cardinality(SameFolder(k)) <= cfg.images_per_folder

\* numerical naming, grouped structure: a folder is full and a later image
\* went to another folder
NoPathCollisionWitness ==
    /\ cfg.output_naming = "numerical" /\ cfg.output_structure = "grouped"
    /\ \E k \in 1..Len(files) :
         /\ Cardinality(SameFolder(k)) = 2
         /\ \E j \in 1..Len(files) : j \notin SameFolder(k)

====
